---- MODULE Spec2Model ----
(***************************************************************************)
(* Model of asus_router_config.py: main() and AsusRouterConfigurator.      *)
(*                                                                         *)
(* One run of the script is one behaviour.  The command line, the process  *)
(* environment and every answer of the collaborators (virtual display,     *)
(* driver manager, browser session) are inputs: the command line and the   *)
(* environment are drawn in Init, the collaborators' answers are drawn by  *)
(* the action that makes the call.  A call of a collaborator either        *)
(* returns or raises one of the exception classes of Exceptions.           *)
(*                                                                         *)
(* Line 77 of the source, os.path.join('/snap', 'bin',, 'geckodriver'),    *)
(* is read as os.path.join('/snap', 'bin', 'geckodriver').  The model      *)
(* starts where parser.parse_args() is called with a command line that     *)
(* argparse accepts.  time.sleep() changes no state and is left out.       *)
(***************************************************************************)
EXTENDS Integers, Sequences, FiniteSets, TLC

VARIABLES
    pc,        \* position of the run in main() / configure()
    argv,      \* the command line, as argparse sees it
    environ,   \* os.environ: the three variables main() reads
    args,      \* the namespace parse_args() returned
    self,      \* the AsusRouterConfigurator instance
    browser,   \* the browser process of the Session Handle
    xvfb,      \* the virtual display process of the Session Handle
    invoked,   \* the phases configure() invoked, in order
    outcome,   \* what each phase of configure() came to
    radio_buttons, \* set_url_filter_state: the list find_elements returned
    answers,   \* what each collaborator answered: the inputs drawn so far
    calls,     \* every call made on a collaborator, in order
    printed,   \* every line written to stdout, in order
    ret,       \* configure(): the value of the return statement that ran
    raised,    \* configure(): the exception in flight out of it
    exitCode   \* the statuses the process ended with: empty while it runs

vars == <<pc, argv, environ, args, self, browser, xvfb, invoked, outcome,
          radio_buttons, answers, calls, printed, ret, raised, exitCode>>

(***************************************************************************)
(* Values                                                                  *)
(***************************************************************************)
\* Python's None, and an option or variable that is not given.
None == "None"

\* The largest number of controls find_elements is taken to return.
MaxFound == 3

Phases == <<"setup_driver", "login", "navigate_to_url_filter", "set_url_filter_state">>

PhaseSet == {Phases[i] : i \in 1..Len(Phases)}

\* What the collaborators raise: the two classes the steps name in their
\* except clauses, and one that is neither (any other subclass of Exception).
Exceptions == {"TimeoutException", "NoSuchElementException", "WebDriverException"}

(***************************************************************************)
(* main(): argument parsing, lines 263-324                                 *)
(***************************************************************************)
\* os.getenv(name, default)
getenv(env, name, default) ==
    IF env[name] = None THEN default ELSE env[name]

\* An option's value: the flag when given, else the default of add_argument.
Option(flag, default) ==
    IF flag = None THEN default ELSE flag

\* parser.parse_args(): --headless and --no-headless share dest "headless",
\* default True; --no-headless stores False.
parse_args(av, env) ==
    [action    |-> av.action,
     router_ip |-> Option(av.router_ip, getenv(env, "ROUTER_IP", "192.168.0.1")),
     username  |-> Option(av.username, getenv(env, "ROUTER_USERNAME", "admin")),
     password  |-> Option(av.password, getenv(env, "ROUTER_PASSWORD", None)),
     headless  |-> (av.headless # "--no-headless"),
     use_https |-> av.use_https]

CommandLines ==
    [action    : {"activate", "deactivate"},
     router_ip : {None, "10.0.0.1"},
     username  : {None},
     password  : {None, "", "s3cret"},
     headless  : {None, "--no-headless"},
     use_https : BOOLEAN]

Environments ==
    [ROUTER_IP       : {None},
     ROUTER_USERNAME : {None, "root"},
     ROUTER_PASSWORD : {None, "", "hunter2"}]

NoArgs ==
    [action |-> None, router_ip |-> None, username |-> None, password |-> None,
     headless |-> FALSE, use_https |-> FALSE]

NoSelf ==
    [router_ip |-> None, username |-> None, password |-> None, headless |-> FALSE,
     use_https |-> FALSE, protocol |-> None, driver |-> None, wait |-> None,
     display |-> None]

\* The collaborators' answers to one phase, or to one release call: whether
\* the geckodriver is installed locally, how many controls find_elements
\* returns, which call raised (0: none) and the class it raised.
Answer(local, found, failAt, cls) ==
    [asked |-> TRUE, local |-> local, found |-> found, failAt |-> failAt,
     cls |-> IF failAt = 0 THEN None ELSE cls]

NoAnswer ==
    [asked |-> FALSE, local |-> FALSE, found |-> 0, failAt |-> 0, cls |-> None]

AnswerKeys == PhaseSet \cup {"quit", "Display.stop"}

Init ==
    /\ pc = "parse_args"
    /\ argv \in CommandLines
    /\ environ \in Environments
    /\ args = NoArgs
    /\ self = NoSelf
    /\ browser = "absent"
    /\ xvfb = "absent"
    /\ invoked = <<>>
    /\ outcome = [p \in PhaseSet |-> "not invoked"]
    /\ radio_buttons = [assigned |-> FALSE, len |-> 0]
    /\ answers = [k \in AnswerKeys |-> NoAnswer]
    /\ calls = <<>>
    /\ printed = <<>>
    /\ ret = None
    /\ raised = None
    /\ exitCode = {}

\* A line of stdout: the fixed text and the value formatted into it.
Line(text, detail) == [text |-> text, detail |-> detail]

\* A call on a collaborator: by is the locator strategy, idx the position of
\* the element in the list find_elements returned (-1: not from that list).
Call(op, by, target, arg, idx) ==
    [op |-> op, by |-> by, target |-> target, arg |-> arg, idx |-> idx]

ParseArgs ==
    /\ pc = "parse_args"
    /\ args' = parse_args(argv, environ)
    /\ pc' = "validate"
    /\ UNCHANGED <<answers, radio_buttons, argv, environ, self, browser, xvfb, invoked, outcome, calls,
                   printed, ret, raised, exitCode>>

(***************************************************************************)
(* main(): password validation, lines 326-330                              *)
(***************************************************************************)
\* "not args.password" with the mutation: only None counts as missing.
NotPasswordNoneOnly(a) == a.password = None

\* "not args.password": None and the empty string are both falsy.
NotPassword(a) == a.password = None \/ a.password = ""

ValidatePassword ==
    /\ pc = "validate"
    /\ IF NotPassword(args)
         THEN /\ printed' = printed \o
                    <<Line("ERROR: Router password is required!", ""),
                      Line("Provide it via --password argument or ROUTER_PASSWORD environment variable", "")>>
              /\ exitCode' = {1}
              /\ pc' = "exited"
         ELSE /\ pc' = "construct"
              /\ UNCHANGED <<printed, exitCode>>
    /\ UNCHANGED <<answers, radio_buttons, argv, environ, args, self, browser, xvfb, invoked, outcome,
                   calls, ret, raised>>

(***************************************************************************)
(* AsusRouterConfigurator.__init__, lines 47-55                            *)
(***************************************************************************)
Construct ==
    /\ pc = "construct"
    /\ self' = [router_ip |-> args.router_ip,
                username  |-> args.username,
                password  |-> args.password,
                headless  |-> args.headless,
                use_https |-> args.use_https,
                protocol  |-> IF args.use_https THEN "https" ELSE "http",
                driver    |-> None,
                wait      |-> None,
                display   |-> None]
    /\ pc' = "setup_driver"
    /\ UNCHANGED <<answers, radio_buttons, argv, environ, args, browser, xvfb, invoked, outcome, calls,
                   printed, ret, raised, exitCode>>

(***************************************************************************)
(* Calls on collaborators and Python's try/except                          *)
(***************************************************************************)
\* One statement that calls a collaborator: the call, whether the call can
\* raise, and the lines printed between its return and the next call.
Step(call, fails, after) == [call |-> call, fails |-> fails, after |-> after]

\* The positions at which a run of the steps can be cut short by an exception.
FailPoints(steps) == {i \in 1..Len(steps) : steps[i].fails}

\* failAt = 0: every step returned; failAt = k: step k raised.
Returned(steps, failAt) == IF failAt = 0 THEN Len(steps) ELSE failAt - 1

CallsMade(steps, failAt) ==
    [i \in 1..(IF failAt = 0 THEN Len(steps) ELSE failAt) |-> steps[i].call]

RECURSIVE PrintedAfter(_, _)
PrintedAfter(steps, n) ==
    IF n = 0 THEN <<>> ELSE PrintedAfter(steps, n - 1) \o steps[n].after

HasReturned(steps, failAt, op) ==
    \E i \in 1..Returned(steps, failAt) : steps[i].call.op = op

WasCalled(steps, failAt, op) ==
    \E i \in 1..Len(CallsMade(steps, failAt)) : steps[i].call.op = op

\* str(e) of an exception a collaborator raised: it names the class and the
\* call that failed, with its locator.
ExcMsg(cls, call) == cls \o ": " \o call.op \o " " \o call.target

\* isinstance(e, base): every class of the model derives from Exception.
IsInstance(cls, base) == cls = base \/ base = "Exception"

\* The except clause that handles an exception of class cls: the first one
\* that matches, 0 when none does and the exception propagates.
Catch(clauses, cls) ==
    IF \E i \in 1..Len(clauses) : IsInstance(cls, clauses[i])
      THEN CHOOSE i \in 1..Len(clauses) :
               /\ IsInstance(cls, clauses[i])
               /\ \A j \in 1..(i - 1) : ~IsInstance(cls, clauses[j])
      ELSE 0

\* What a step method came to: its calls, its output, and its result, which is
\* "True", "False" or the class of the exception that left it.
StepResult(steps, failAt, before, onSuccess, clauses, cls, msg, handlers) ==
    LET clause == Catch(clauses, cls) IN
    [calls   |-> CallsMade(steps, failAt),
     printed |-> before \o PrintedAfter(steps, Returned(steps, failAt)) \o
                 (IF cls = None THEN onSuccess
                  ELSE IF clause # 0 THEN handlers[clause] ELSE <<>>),
     result  |-> IF cls = None THEN "True"
                 ELSE IF clause # 0 THEN "False" ELSE cls,
     msg     |-> msg]

(***************************************************************************)
(* AsusRouterConfigurator.setup_driver, lines 57-95                        *)
(***************************************************************************)
venv_geckodriver == "/snap/bin/geckodriver"

\* The path GeckoDriverManager().install() returns.
managed_geckodriver == "~/.wdm/drivers/geckodriver"

\* setup_driver without "if self.headless:": the mutation.
setup_steps_always_display(s, local) ==
    <<Step(Call("Display", "", "", "visible=0", -1), TRUE, <<>>),
      Step(Call("Display.start", "", "", "", -1), TRUE,
           <<Line("Virtual display started for headless operation", "")>>),
      Step(Call("os.path.exists", "", venv_geckodriver, "", -1), FALSE,
           IF local
             THEN <<Line("Using locally installed geckodriver at:", venv_geckodriver)>>
             ELSE <<Line("Locally installed geckodriver not found, using webdriver_manager to install...", "")>>)>>
    \o (IF local
          THEN <<>>
          ELSE <<Step(Call("GeckoDriverManager.install", "", "", "", -1), TRUE,
                      <<Line("Geckodriver installed via webdriver_manager at:", managed_geckodriver)>>)>>)
    \o <<Step(Call("webdriver.Firefox", "", "", "", -1), TRUE,
              <<Line("Firefox WebDriver initialized successfully", "")>>)>>

setup_steps(s, local) ==
    (IF s.headless
       THEN <<Step(Call("Display", "", "", "visible=0", -1), TRUE, <<>>),
              Step(Call("Display.start", "", "", "", -1), TRUE,
                   <<Line("Virtual display started for headless operation", "")>>)>>
       ELSE <<>>)
    \o <<Step(Call("os.path.exists", "", venv_geckodriver, "", -1), FALSE,
              IF local
                THEN <<Line("Using locally installed geckodriver at:", venv_geckodriver)>>
                ELSE <<Line("Locally installed geckodriver not found, using webdriver_manager to install...", "")>>)>>
    \o (IF local
          THEN <<>>
          ELSE <<Step(Call("GeckoDriverManager.install", "", "", "", -1), TRUE,
                      <<Line("Geckodriver installed via webdriver_manager at:", managed_geckodriver)>>)>>)
    \o <<Step(Call("webdriver.Firefox", "", "", "", -1), TRUE,
              <<Line("Firefox WebDriver initialized successfully", "")>>)>>

\* "except Exception as e" of configure() returns True: the mutation.
ExceptReturnTrue == "True"

\* "except Exception as e: ... return False", lines 249-251
ExceptReturn == "False"

\* configure()'s "except Exception as e" clause, lines 249-251
ConfigureExcept(sofar, msg) ==
    /\ printed' = printed \o sofar \o <<Line("ERROR: Configuration failed:", msg)>>
    /\ ret' = ExceptReturn
    /\ pc' = "finally_driver"

SetupDriver ==
    /\ pc = "setup_driver"
    /\ \E local \in BOOLEAN :
         LET steps == setup_steps(self, local) IN
         \E failAt \in {0} \cup FailPoints(steps), cls \in Exceptions :
           LET done(op) == HasReturned(steps, failAt, op) IN
           /\ invoked' = Append(invoked, "setup_driver")
           /\ answers' = [answers EXCEPT !["setup_driver"] =
                  Answer(local /\ WasCalled(steps, failAt, "os.path.exists"),
                         0, failAt, cls)]
           /\ calls' = calls \o CallsMade(steps, failAt)
           /\ self' = [self EXCEPT
                         !.display = IF done("Display") THEN "Display" ELSE None,
                         !.driver  = IF done("webdriver.Firefox") THEN "Firefox" ELSE None,
                         !.wait    = IF done("webdriver.Firefox")
                                       THEN "WebDriverWait(driver, 20)" ELSE None]
           /\ xvfb' = IF done("Display.start") THEN "running"
                      ELSE IF WasCalled(steps, failAt, "Display.start")
                             THEN "start failed" ELSE "absent"
           /\ browser' = IF done("webdriver.Firefox") THEN "running" ELSE "absent"
           /\ IF failAt = 0
                THEN /\ outcome' = [outcome EXCEPT !["setup_driver"] = "True"]
                     /\ printed' = printed \o PrintedAfter(steps, Len(steps))
                     /\ pc' = "login"
                     /\ UNCHANGED ret
                ELSE /\ outcome' = [outcome EXCEPT !["setup_driver"] = "raised"]
                     /\ ConfigureExcept(PrintedAfter(steps, failAt - 1),
                                        ExcMsg(cls, steps[failAt].call))
    /\ UNCHANGED <<radio_buttons, argv, environ, args, raised, exitCode>>

(***************************************************************************)
(* configure(): the three boolean steps, lines 237-244                     *)
(***************************************************************************)
\* "if not self.step(): return False" without the return: the mutation.
IfNotGoOn(value, nxt) == [pc |-> nxt, ret |-> None]

\* A step that returned False is tried again: the mutation.
IfNotRetry(value, nxt) ==
    IF value = "True"
      THEN [pc |-> nxt, ret |-> None]
      ELSE [pc |-> CASE nxt = "navigate_to_url_filter" -> "login"
                     [] nxt = "set_url_filter_state" -> "navigate_to_url_filter"
                     [] OTHER -> "set_url_filter_state",
            ret |-> None]

\* "if not self.step(): return False": where configure() goes on the value the
\* step returned, and the value it returns when it leaves.
IfNotReturnFalse(value, nxt) ==
    IF value = "True"
      THEN [pc |-> nxt, ret |-> None]
      ELSE [pc |-> "finally_driver", ret |-> "False"]

\* configure() calls the step `name`, which came to r, and goes on to nxt.
\* An exception that leaves the step is handled by configure()'s except clause.
InvokeStep(name, r, nxt) ==
    /\ invoked' = Append(invoked, name)
    /\ calls' = calls \o r.calls
    /\ IF r.result \in {"True", "False"}
         THEN LET to == IfNotReturnFalse(r.result, nxt) IN
              /\ outcome' = [outcome EXCEPT ![name] = r.result]
              /\ printed' = printed \o r.printed
              /\ pc' = to.pc
              /\ ret' = to.ret
         ELSE /\ outcome' = [outcome EXCEPT ![name] = "raised"]
              /\ ConfigureExcept(r.printed, r.msg)

(***************************************************************************)
(* AsusRouterConfigurator.login, lines 97-138                              *)
(***************************************************************************)
\* The commented-out line 101 brought back, with the login path: the mutation.
login_url_protocol(s) == s.protocol \o "://" \o s.router_ip \o "/Main_Login.asp"

\* url = f"http://{self.router_ip}/Main_Login.asp", line 102
login_url(s) == "http://" \o s.router_ip \o "/Main_Login.asp"

\* What driver.current_url answers after the login page loaded.
current_url == "http://www.asusrouter.com/Main_Login.asp"

\* login filling the password before the username: the mutation.
login_steps_password_first(s) ==
    <<Step(Call("get", "", login_url(s), "", -1), TRUE, <<>>),
      Step(Call("current_url", "", "", "", -1), TRUE,
           <<Line("Current url (should be asusrouter.com/blablabla): ", current_url),
             Line("Attempting to log in...", "")>>),
      Step(Call("find_element", "name", "login_passwd", "", -1), TRUE, <<>>),
      Step(Call("clear", "name", "login_passwd", "", -1), TRUE, <<>>),
      Step(Call("send_keys", "name", "login_passwd", s.password, -1), TRUE, <<>>),
      Step(Call("find_element", "name", "login_username", "", -1), TRUE, <<>>),
      Step(Call("clear", "name", "login_username", "", -1), TRUE, <<>>),
      Step(Call("send_keys", "name", "login_username", s.username, -1), TRUE, <<>>),
      Step(Call("find_element", "class name", "button", "", -1), TRUE, <<>>),
      Step(Call("click", "class name", "button", "", -1), TRUE, <<>>)>>

\* login with a debugging print of the credentials left in: the mutation.
login_steps_echo(s) ==
    <<Step(Call("get", "", login_url(s), "", -1), TRUE, <<>>),
      Step(Call("current_url", "", "", "", -1), TRUE,
           <<Line("Current url (should be asusrouter.com/blablabla): ", current_url),
             Line("Attempting to log in...", s.password)>>),
      Step(Call("find_element", "name", "login_username", "", -1), TRUE, <<>>),
      Step(Call("clear", "name", "login_username", "", -1), TRUE, <<>>),
      Step(Call("send_keys", "name", "login_username", s.username, -1), TRUE, <<>>),
      Step(Call("find_element", "name", "login_passwd", "", -1), TRUE, <<>>),
      Step(Call("clear", "name", "login_passwd", "", -1), TRUE, <<>>),
      Step(Call("send_keys", "name", "login_passwd", s.password, -1), TRUE, <<>>),
      Step(Call("find_element", "class name", "button", "", -1), TRUE, <<>>),
      Step(Call("click", "class name", "button", "", -1), TRUE, <<>>)>>

login_steps(s) ==
    <<Step(Call("get", "", login_url(s), "", -1), TRUE, <<>>),
      Step(Call("current_url", "", "", "", -1), TRUE,
           <<Line("Current url (should be asusrouter.com/blablabla): ", current_url),
             Line("Attempting to log in...", "")>>),
      Step(Call("find_element", "name", "login_username", "", -1), TRUE, <<>>),
      Step(Call("clear", "name", "login_username", "", -1), TRUE, <<>>),
      Step(Call("send_keys", "name", "login_username", s.username, -1), TRUE, <<>>),
      Step(Call("find_element", "name", "login_passwd", "", -1), TRUE, <<>>),
      Step(Call("clear", "name", "login_passwd", "", -1), TRUE, <<>>),
      Step(Call("send_keys", "name", "login_passwd", s.password, -1), TRUE, <<>>),
      Step(Call("find_element", "class name", "button", "", -1), TRUE, <<>>),
      Step(Call("click", "class name", "button", "", -1), TRUE, <<>>)>>

\* The except clauses of login without the catch-all: the mutation.
login_except_no_catch_all == <<"TimeoutException", "NoSuchElementException">>

\* The except clauses of login, lines 130, 133, 136
login_except == <<"TimeoutException", "NoSuchElementException", "Exception">>

login(s, failAt, cls) ==
    LET steps == login_steps(s)
        msg == IF failAt = 0 THEN "" ELSE ExcMsg(cls, steps[failAt].call)
    IN  StepResult(steps, failAt,
            <<Line("Navigating to", login_url(s))>>,
            <<Line("Successfully logged in to router", "")>>,
            login_except, IF failAt = 0 THEN None ELSE cls, msg,
            <<<<Line("ERROR: Timeout while trying to log in", "")>>,
              <<Line("ERROR: Could not find login element:", msg)>>,
              <<Line("ERROR: Unexpected error during login:", msg)>>>>)

Login ==
    /\ pc = "login"
    /\ \E failAt \in {0} \cup FailPoints(login_steps(self)), cls \in Exceptions :
         /\ InvokeStep("login", login(self, failAt, cls), "navigate_to_url_filter")
         /\ answers' = [answers EXCEPT !["login"] = Answer(FALSE, 0, failAt, cls)]
    /\ UNCHANGED <<radio_buttons, argv, environ, args, self, browser, xvfb, raised, exitCode>>

(***************************************************************************)
(* AsusRouterConfigurator.navigate_to_url_filter, lines 140-165            *)
(***************************************************************************)
filter_url == "http://www.asusrouter.com/Advanced_URLFilter_Content.asp"

navigate_steps ==
    <<Step(Call("get", "", filter_url, "", -1), TRUE, <<>>)>>

\* The except clause of navigate_to_url_filter, line 163
navigate_except == <<"Exception">>

\* navigate_to_url_filter returning False without a diagnostic: the mutation.
navigate_to_url_filter_silent(failAt, cls) ==
    LET steps == navigate_steps
        msg == IF failAt = 0 THEN "" ELSE ExcMsg(cls, steps[failAt].call)
    IN  StepResult(steps, failAt,
            <<Line("Navigating to URL Filter page...", "")>>,
            <<Line("Navigated to URL Filter page", ""),
              Line("Note: If this page is incorrect, the URL path may vary by router model.", ""),
              Line("      Check your router's admin interface for the correct path.", "")>>,
            navigate_except, IF failAt = 0 THEN None ELSE cls, msg,
            <<<<>>>>)

navigate_to_url_filter(failAt, cls) ==
    LET steps == navigate_steps
        msg == IF failAt = 0 THEN "" ELSE ExcMsg(cls, steps[failAt].call)
    IN  StepResult(steps, failAt,
            <<Line("Navigating to URL Filter page...", "")>>,
            <<Line("Navigated to URL Filter page", ""),
              Line("Note: If this page is incorrect, the URL path may vary by router model.", ""),
              Line("      Check your router's admin interface for the correct path.", "")>>,
            navigate_except, IF failAt = 0 THEN None ELSE cls, msg,
            <<<<Line("ERROR: Failed to navigate to URL filter page:", msg)>>>>)

NavigateToUrlFilter ==
    /\ pc = "navigate_to_url_filter"
    /\ \E failAt \in {0} \cup FailPoints(navigate_steps), cls \in Exceptions :
         /\ InvokeStep("navigate_to_url_filter", navigate_to_url_filter(failAt, cls),
                       "set_url_filter_state")
         /\ answers' = [answers EXCEPT !["navigate_to_url_filter"] =
                Answer(FALSE, 0, failAt, cls)]
    /\ UNCHANGED <<radio_buttons, argv, environ, args, self, browser, xvfb, raised, exitCode>>

(***************************************************************************)
(* AsusRouterConfigurator.set_url_filter_state, lines 167-222              *)
(***************************************************************************)
\* "activate = args.action == 'activate'", line 342
activate(a) == a.action = "activate"

\* The radio control clicked, with Enable and Disable swapped: the mutation.
RadioIndexSwapped(act) == IF act THEN 1 ELSE 0

\* "if activate: radio_buttons[0].click() else: radio_buttons[1].click()"
RadioIndex(act) == IF act THEN 0 ELSE 1

\* "if len(radio_buttons) < 1": the mutation.
PreconditionFailsUnderOne(found) == found < 1

\* "if len(radio_buttons) < 2", line 186
PreconditionFails(found) == found < 2

\* action = "Activating" if activate else "Deactivating", and action.lower()
ActionWord(act) == IF act THEN "Activating" ELSE "Deactivating"

Lower(word) ==
    CASE word = "Activating" -> "activating"
      [] word = "Deactivating" -> "deactivating"
      [] OTHER -> word

\* The message of the Exception raised at lines 187-191
CountMismatch(found) ==
    "URL filtering radio buttons not found or incomplete. "
    \o "Expected 2 radio buttons with name=\"url_enable_x\", found "
    \o ToString(found) \o ". "
    \o "Please verify the router interface or check element selectors."

apply_xpath == "//input[@value='Apply']"

\* Apply located and clicked before the radio control: the mutation.
set_state_steps_apply_first(act, found) ==
    <<Step(Call("find_elements", "name", "url_enable_x", "", -1), TRUE, <<>>)>>
    \o (IF PreconditionFails(found)
          THEN <<>>
          ELSE <<Step(Call("find_element", "xpath", apply_xpath, "", -1), TRUE, <<>>),
                 Step(Call("click", "xpath", apply_xpath, "", -1), TRUE, <<>>),
                 Step(Call("click", "name", "url_enable_x", "", RadioIndex(act)), TRUE, <<>>)>>)

\* found: the number of controls find_elements returns.
set_state_steps(act, found) ==
    <<Step(Call("find_elements", "name", "url_enable_x", "", -1), TRUE, <<>>)>>
    \o (IF PreconditionFails(found)
          THEN <<>>
          ELSE <<Step(Call("click", "name", "url_enable_x", "", RadioIndex(act)), TRUE, <<>>),
                 Step(Call("find_element", "xpath", apply_xpath, "", -1), TRUE, <<>>),
                 Step(Call("click", "xpath", apply_xpath, "", -1), TRUE, <<>>)>>)

\* The except clauses of set_url_filter_state, lines 212, 216, 220
set_state_except == <<"TimeoutException", "NoSuchElementException", "Exception">>

set_url_filter_state(act, found, failAt, cls) ==
    LET steps == set_state_steps(act, found)
        mismatch == failAt = 0 /\ PreconditionFails(found)
        e == IF mismatch THEN "Exception" ELSE IF failAt = 0 THEN None ELSE cls
        msg == IF mismatch THEN CountMismatch(found)
               ELSE IF failAt = 0 THEN "" ELSE ExcMsg(cls, steps[failAt].call)
    IN  StepResult(steps, failAt,
            <<Line(ActionWord(act) \o " URL filtering...", "")>>,
            <<Line("URL filtering successfully "
                   \o (IF act THEN "activated" ELSE "deactivated"), "")>>,
            set_state_except, e, msg,
            <<<<Line("ERROR: Timeout while trying to " \o Lower(ActionWord(act))
                     \o " URL filtering", ""),
                Line("Note: Element IDs may vary by router model. Manual configuration may be needed.", "")>>,
              <<Line("ERROR: Could not find URL filter element:", msg),
                Line("Note: The router WebUI structure may differ from expected. Check element IDs.", "")>>,
              <<Line("ERROR: Unexpected error while configuring URL filter:", msg)>>>>)

SetUrlFilterState ==
    /\ pc = "set_url_filter_state"
    /\ \E found \in 0..MaxFound :
         \E failAt \in {0} \cup FailPoints(set_state_steps(activate(args), found)),
            cls \in Exceptions :
           /\ InvokeStep("set_url_filter_state",
                         set_url_filter_state(activate(args), found, failAt, cls),
                         "completed")
           /\ answers' = [answers EXCEPT !["set_url_filter_state"] =
                  Answer(FALSE, IF failAt = 1 THEN 0 ELSE found, failAt, cls)]
           /\ radio_buttons' = IF failAt = 1
                                 THEN radio_buttons
                                 ELSE [assigned |-> TRUE, len |-> found]
    /\ UNCHANGED <<argv, environ, args, self, browser, xvfb, raised, exitCode>>

(***************************************************************************)
(* configure(): success, lines 246-247                                     *)
(***************************************************************************)
Completed ==
    /\ pc = "completed"
    /\ printed' = printed \o <<Line("Configuration completed successfully!", "")>>
    /\ ret' = "True"
    /\ pc' = "finally_driver"
    /\ UNCHANGED <<answers, radio_buttons, argv, environ, args, self, browser, xvfb, invoked, outcome,
                   calls, raised, exitCode>>

(***************************************************************************)
(* configure(): the finally block, lines 252-258                           *)
(***************************************************************************)
\* "if self.driver:" always true: the mutation.
DriverTruthyAlways(s) == TRUE

\* "if self.driver:", line 253: None is falsy, a WebDriver object is truthy.
DriverTruthy(s) == s.driver # None

\* "if self.display:" always true: the mutation.
DisplayTruthyAlways(s) == TRUE

\* "if self.display:" only once the browser is up: the mutation.
DisplayTruthyWithDriver(s) == s.display # None /\ s.driver # None

\* "if self.display:", line 256: None is falsy, a Display object is truthy.
DisplayTruthy(s) == s.display # None

\* An exception raised inside the finally block replaces the pending return
\* value and leaves configure(); the rest of the block does not run.
FinallyDriver ==
    /\ pc = "finally_driver"
    /\ IF DriverTruthy(self)
         THEN \E cls \in {None} \cup Exceptions :
                /\ calls' = Append(calls, Call("quit", "", "", "", -1))
                /\ answers' = [answers EXCEPT !["quit"] =
                       Answer(FALSE, 0, IF cls = None THEN 0 ELSE 1, cls)]
                /\ IF cls = None
                     THEN /\ browser' = IF browser = "running" THEN "quit" ELSE browser
                          /\ printed' = Append(printed, Line("Browser closed", ""))
                          /\ pc' = "finally_display"
                          /\ UNCHANGED <<ret, raised>>
                     ELSE /\ browser' = IF browser = "running" THEN "quit failed" ELSE browser
                          /\ raised' = cls
                          /\ ret' = None
                          /\ pc' = "return"
                          /\ UNCHANGED printed
         ELSE /\ pc' = "finally_display"
              /\ UNCHANGED <<answers, calls, browser, printed, ret, raised>>
    /\ UNCHANGED <<radio_buttons, argv, environ, args, self, xvfb, invoked, outcome, exitCode>>

FinallyDisplay ==
    /\ pc = "finally_display"
    /\ IF DisplayTruthy(self)
         THEN \E cls \in {None} \cup Exceptions :
                /\ calls' = Append(calls, Call("Display.stop", "", "", "", -1))
                /\ answers' = [answers EXCEPT !["Display.stop"] =
                       Answer(FALSE, 0, IF cls = None THEN 0 ELSE 1, cls)]
                /\ IF cls = None
                     THEN /\ xvfb' = IF xvfb = "running" THEN "stopped" ELSE xvfb
                          /\ printed' = Append(printed, Line("Virtual display stopped", ""))
                          /\ UNCHANGED <<ret, raised>>
                     ELSE /\ xvfb' = IF xvfb = "running" THEN "stop failed" ELSE xvfb
                          /\ raised' = cls
                          /\ ret' = None
                          /\ UNCHANGED printed
         ELSE UNCHANGED <<answers, calls, xvfb, printed, ret, raised>>
    /\ pc' = "return"
    /\ UNCHANGED <<radio_buttons, argv, environ, args, self, browser, invoked, outcome, exitCode>>

(***************************************************************************)
(* main(): exit status, lines 343-346                                      *)
(***************************************************************************)
\* sys.exit(0) whatever configure() returned: the mutation.
ExitStatusZero(success) == 0

\* "sys.exit(0 if success else 1)", line 346
ExitStatus(success) == IF success THEN 0 ELSE 1

\* configure() returned, or an exception left it: main() has no handler, the
\* interpreter prints the traceback to stderr and ends with status 1.
Exit ==
    /\ pc = "return"
    /\ exitCode' = IF raised # None THEN {1} ELSE {ExitStatus(ret = "True")}
    /\ pc' = "exited"
    /\ UNCHANGED <<answers, radio_buttons, argv, environ, args, self, browser, xvfb, invoked, outcome,
                   calls, printed, ret, raised>>

Next ==
    \/ ParseArgs
    \/ ValidatePassword
    \/ Construct
    \/ SetupDriver
    \/ Login
    \/ NavigateToUrlFilter
    \/ SetUrlFilterState
    \/ Completed
    \/ FinallyDriver
    \/ FinallyDisplay
    \/ Exit

Spec == Init /\ [][Next]_vars

(***************************************************************************)
(* Vocabulary of the properties                                            *)
(***************************************************************************)
BooleanSteps == {"login", "navigate_to_url_filter", "set_url_filter_state"}

Invoked(p) == \E i \in 1..Len(invoked) : invoked[i] = p

Failed(p) == outcome[p] \in {"False", "raised"}

AllSucceeded == \A p \in PhaseSet : outcome[p] = "True"

\* Control has left configure().
LeftConfigure == pc \in {"return", "exited"} /\ invoked # <<>>

\* configure() returned this value: no exception replaced it.
Returns(value) == LeftConfigure /\ raised = None /\ ret = value

CountCalls(op) == Cardinality({i \in 1..Len(calls) : calls[i].op = op})

\* The positions in the list of radio controls that were clicked, in order.
RadioClicks ==
    LET at == {i \in 1..Len(calls) :
                   calls[i].op = "click" /\ calls[i].target = "url_enable_x"}
        F[S \in SUBSET at] ==
            IF S = {} THEN <<>>
            ELSE LET m == CHOOSE i \in S : \A j \in S : j <= i
                 IN  Append(F[S \ {m}], calls[m].idx)
    IN  F[at]

\* Clicks made by set_url_filter_state: on a radio control or on Apply.
FilterPageClicks ==
    {i \in 1..Len(calls) :
        calls[i].op = "click" /\ calls[i].target \in {"url_enable_x", apply_xpath}}

Printed(line) == \E i \in 1..Len(printed) : printed[i] = line

PrintedText(text) == \E i \in 1..Len(printed) : printed[i].text = text

\* driver.quit() raised inside the finally block.
QuitRaised ==
    /\ LeftConfigure
    /\ raised # None
    /\ calls # <<>>
    /\ calls[Len(calls)].op = "quit"

(***************************************************************************)
(* C1: sequencing.  In every run of configure(), once phase k (of          *)
(* setup_driver, login, navigate_to_url_filter, set_url_filter_state, in   *)
(* that order) has raised or returned False, none of the phases k+1..4 is  *)
(* invoked in that run; and the phases that are invoked are invoked in     *)
(* that order.                                                             *)
(***************************************************************************)
C1_Sequencing ==
    /\ \A k \in 1..3 : \A j \in (k + 1)..4 :
          Failed(Phases[k]) => ~Invoked(Phases[j]) /\ outcome[Phases[j]] = "not invoked"
    /\ invoked = SubSeq(Phases, 1, Len(invoked))

C1_Witness ==
    /\ pc = "exited"
    /\ outcome["login"] = "False"
    /\ invoked = <<"setup_driver", "login">>

C3_NoLeak ==
    LeftConfigure => browser # "running" /\ xvfb # "running"

(***************************************************************************)
(* C4: in set_url_filter_state, when find_elements returned at least two   *)
(* controls named url_enable_x: with activate the control at index 0 is    *)
(* clicked and the one at index 1 never; with deactivate the control at    *)
(* index 1 is clicked and the one at index 0 never; exactly one radio      *)
(* control is clicked.                                                     *)
(***************************************************************************)
C4_RadioIndex ==
    (radio_buttons.assigned /\ radio_buttons.len >= 2) =>
        RadioClicks = (IF args.action = "activate" THEN <<0>> ELSE <<1>>)

C4_Witness ==
    /\ radio_buttons.assigned
    /\ radio_buttons.len = 3
    /\ args.action = "deactivate"
    /\ outcome["set_url_filter_state"] = "True"
    /\ RadioClicks = <<1>>

(***************************************************************************)
(* C5: when find_elements returned fewer than two controls (0 or 1),       *)
(* set_url_filter_state returns False, prints a count-mismatch diagnostic  *)
(* that states the number found, and clicks no control: neither a radio    *)
(* control nor Apply.                                                      *)
(***************************************************************************)
C5_Diagnostic(n) ==
    Line("ERROR: Unexpected error while configuring URL filter:",
         IF n = 0
           THEN "URL filtering radio buttons not found or incomplete. Expected 2 radio buttons with name=\"url_enable_x\", found 0. Please verify the router interface or check element selectors."
           ELSE "URL filtering radio buttons not found or incomplete. Expected 2 radio buttons with name=\"url_enable_x\", found 1. Please verify the router interface or check element selectors.")

C5_CountMismatch ==
    (radio_buttons.assigned /\ radio_buttons.len < 2) =>
        /\ outcome["set_url_filter_state"] = "False"
        /\ Printed(C5_Diagnostic(radio_buttons.len))
        /\ FilterPageClicks = {}
        /\ \A i \in 1..Len(calls) : calls[i].target # apply_xpath

C5_Witness ==
    /\ pc = "exited"
    /\ radio_buttons.assigned
    /\ radio_buttons.len = 1
    /\ outcome["set_url_filter_state"] = "False"
    /\ exitCode = {1}

(***************************************************************************)
(* C6: when neither --password nor ROUTER_PASSWORD supplies a non-empty    *)
(* value, main() exits with status 1 before any session acquisition: no    *)
(* configurator is constructed or run, no phase is invoked, no call is     *)
(* made on a collaborator, and no display or browser process is started.   *)
(***************************************************************************)
C6_MissingPassword ==
    (argv.password \in {None, ""} /\ environ.ROUTER_PASSWORD \in {None, ""}) =>
        /\ pc \in {"parse_args", "validate", "exited"}
        /\ self = NoSelf
        /\ invoked = <<>>
        /\ calls = <<>>
        /\ browser = "absent"
        /\ xvfb = "absent"
        /\ pc = "exited" => exitCode = {1}

C6_Witness ==
    /\ pc = "exited"
    /\ argv.password = ""
    /\ environ.ROUTER_PASSWORD = None
    /\ exitCode = {1}
    /\ calls = <<>>

C8_StepsContainExceptions ==
    /\ \A p \in BooleanSteps : outcome[p] \in {"not invoked", "True", "False"}
    /\ PrintedText("ERROR: Configuration failed:") => outcome["setup_driver"] = "raised"
    /\ raised # None => calls[Len(calls)].op \in {"quit", "Display.stop"}

C8_Witness ==
    /\ outcome["login"] = "False"
    /\ Printed(Line("ERROR: Unexpected error during login:",
                    "WebDriverException: click button"))
    /\ Returns("False")

(***************************************************************************)
(* C9: no partial success.  configure() returns True only when             *)
(* setup_driver, login, navigate_to_url_filter and set_url_filter_state    *)
(* were each invoked, in that order, and each succeeded; then the browser  *)
(* was started exactly once, torn down exactly once, and the exit status   *)
(* is 0.                                                                   *)
(***************************************************************************)
C9_NoPartialSuccess ==
    Returns("True") =>
        /\ invoked = Phases
        /\ AllSucceeded
        /\ CountCalls("webdriver.Firefox") = 1
        /\ CountCalls("quit") = 1
        /\ browser = "quit"
        /\ pc = "exited" => exitCode = {0}

C9_Witness ==
    /\ pc = "exited"
    /\ Returns("True")
    /\ exitCode = {0}

(***************************************************************************)
(* C10: a failure during session acquisition (the virtual display cannot   *)
(* start, the driver binary cannot be resolved, the browser cannot start)  *)
(* is fatal: login, navigation and mutation are never invoked, the run     *)
(* ends as a failure (configure() does not return True, exit status 1),    *)
(* and the finally block makes the release call on whatever part of the    *)
(* Session Handle had been created: display.stop() on a Display object     *)
(* that exists, so that no started display is left running.                *)
(***************************************************************************)
C10_AcquisitionFatal ==
    outcome["setup_driver"] = "raised" =>
        /\ invoked = <<"setup_driver">>
        /\ ret # "True"
        /\ browser = "absent"
        /\ LeftConfigure =>
              /\ xvfb # "running"
              /\ self.display # None => CountCalls("Display.stop") = 1
        /\ pc = "exited" => exitCode = {1}

C10_Witness ==
    /\ pc = "exited"
    /\ outcome["setup_driver"] = "raised"
    /\ CountCalls("webdriver.Firefox") = 1
    /\ xvfb = "stopped"
    /\ exitCode = {1}

(***************************************************************************)
(* A second run, on the same answers                                       *)
(***************************************************************************)
\* What configure() prints and calls for the configurator s when every
\* collaborator answers as recorded in ans.  diverged: the run asks for an
\* answer the recorded run never drew, so it made a call the other did not.
Replay(s, act, ans) ==
    LET none == [printed |-> <<>>, calls |-> <<>>]
        su == ans["setup_driver"]
        ssteps == setup_steps(s, su.local)
        up(op) == su.asked /\ HasReturned(ssteps, su.failAt, op)
        after == [s EXCEPT !.display = IF up("Display") THEN "Display" ELSE None,
                           !.driver = IF up("webdriver.Firefox") THEN "Firefox" ELSE None]
        setup == IF ~su.asked THEN none
                 ELSE [printed |-> PrintedAfter(ssteps, Returned(ssteps, su.failAt)) \o
                                   (IF su.failAt = 0 THEN <<>>
                                    ELSE <<Line("ERROR: Configuration failed:",
                                                ExcMsg(su.cls, ssteps[su.failAt].call))>>),
                       calls |-> CallsMade(ssteps, su.failAt)]
        a1 == ans["login"]
        a2 == ans["navigate_to_url_filter"]
        a3 == ans["set_url_filter_state"]
        r1 == login(s, a1.failAt, a1.cls)
        r2 == navigate_to_url_filter(a2.failAt, a2.cls)
        r3 == set_url_filter_state(act, a3.found, a3.failAt, a3.cls)
        need1 == su.asked /\ su.failAt = 0
        need2 == need1 /\ a1.asked /\ IfNotReturnFalse(r1.result, "next").pc = "next"
                       /\ r1.result \in {"True", "False"}
        need3 == need2 /\ a2.asked /\ IfNotReturnFalse(r2.result, "next").pc = "next"
                       /\ r2.result \in {"True", "False"}
        done  == need3 /\ a3.asked /\ IfNotReturnFalse(r3.result, "next").pc = "next"
                       /\ r3.result \in {"True", "False"}
        seg(need, a, r) ==
            IF need /\ a.asked
              THEN [printed |-> r.printed \o
                                (IF r.result \in {"True", "False"} THEN <<>>
                                 ELSE <<Line("ERROR: Configuration failed:", r.msg)>>),
                    calls |-> r.calls]
              ELSE none
        s1 == seg(need1, a1, r1)
        s2 == seg(need2, a2, r2)
        s3 == seg(need3, a3, r3)
        aq == ans["quit"]
        ad == ans["Display.stop"]
        needQuit == su.asked /\ DriverTruthy(after)
        needStop == su.asked /\ DisplayTruthy(after) /\ (needQuit => aq.asked /\ aq.failAt = 0)
        release(need, a, op, text) ==
            IF need /\ a.asked
              THEN [printed |-> IF a.failAt = 0 THEN <<Line(text, "")>> ELSE <<>>,
                    calls |-> <<Call(op, "", "", "", -1)>>]
              ELSE none
        q == release(needQuit, aq, "quit", "Browser closed")
        d == release(needStop, ad, "Display.stop", "Virtual display stopped")
    IN  [printed  |-> setup.printed \o s1.printed \o s2.printed \o s3.printed \o
                      (IF done THEN <<Line("Configuration completed successfully!", "")>>
                       ELSE <<>>) \o q.printed \o d.printed,
         calls    |-> setup.calls \o s1.calls \o s2.calls \o s3.calls \o q.calls \o d.calls,
         diverged |-> \/ need1 /\ ~a1.asked
                      \/ need2 /\ ~a2.asked
                      \/ need3 /\ ~a3.asked
                      \/ needQuit /\ ~aq.asked
                      \/ needStop /\ ~ad.asked]

\* The run of the model is the run Replay computes for its own configurator.
ReplayIsTheRun ==
    LET r == Replay(self, activate(args), answers)
    IN  ~r.diverged /\ r.printed = printed /\ r.calls = calls

(***************************************************************************)
(* C11: the admin password is never logged.  No printed line depends on    *)
(* the password: a run that differs only in the (non-empty) password and   *)
(* gets the same answers from the display, the driver manager and the      *)
(* browser session prints the same output and makes the same calls, but    *)
(* for the text sent to the login_passwd field; and the password is an     *)
(* argument of no call other than send_keys on login_passwd.  (The text of *)
(* an exception raised by a collaborator names the call and its locator,   *)
(* not the keys sent.)                                                     *)
(***************************************************************************)
C11_Passwords == {"s3cret", "hunter2", "correct horse"}

C11_PasswordNeverLogged ==
    LeftConfigure =>
        /\ ReplayIsTheRun
        /\ \A pw \in C11_Passwords :
              LET r == Replay([self EXCEPT !.password = pw], activate(args), answers)
              IN  /\ ~r.diverged
                  /\ r.printed = printed
                  /\ Len(r.calls) = Len(calls)
                  /\ \A i \in 1..Len(calls) :
                        \/ r.calls[i] = calls[i]
                        \/ /\ calls[i].op = "send_keys"
                           /\ calls[i].target = "login_passwd"
                           /\ r.calls[i] = [calls[i] EXCEPT !.arg = pw]
        /\ \A i \in 1..Len(calls) :
              calls[i].arg = self.password =>
                  calls[i].op = "send_keys" /\ calls[i].target = "login_passwd"
        /\ \A i \in 1..Len(printed) :
              printed[i].detail # self.password /\ printed[i].text # self.password

C11_Witness ==
    /\ pc = "exited"
    /\ self.password = "hunter2"
    /\ \E i \in 1..Len(calls) : calls[i].arg = "hunter2"
    /\ outcome["login"] = "False"
    /\ Printed(Line("ERROR: Could not find login element:",
                    "NoSuchElementException: find_element button"))

(***************************************************************************)
(* C12: no retries.  In every run, failing runs included, each of the four *)
(* phases is invoked at most once, a phase that failed is the last one     *)
(* invoked, and no call on a collaborator is made a second time.           *)
(***************************************************************************)
C12_NoRetries ==
    /\ \A p \in PhaseSet :
          Cardinality({i \in 1..Len(invoked) : invoked[i] = p}) <= 1
    /\ \A p \in PhaseSet :
          Failed(p) => invoked[Len(invoked)] = p
    /\ \A i, j \in 1..Len(calls) : calls[i] = calls[j] => i = j

C12_Witness ==
    /\ pc = "exited"
    /\ invoked = <<"setup_driver", "login", "navigate_to_url_filter">>
    /\ outcome["navigate_to_url_filter"] = "False"
    /\ CountCalls("get") = 2

(***************************************************************************)
(* C13 as claimed: the virtual display is used only when the run is        *)
(* headless: in a run that reaches setup_driver, Display.start() is        *)
(* invoked if and only if headless is true, and in a run that is not       *)
(* headless neither start() nor stop() is ever invoked.                    *)
(***************************************************************************)
C13_Original ==
    Invoked("setup_driver") =>
        /\ CountCalls("Display.start") >= 1 <=> self.headless
        /\ ~self.headless =>
              CountCalls("Display.start") = 0 /\ CountCalls("Display.stop") = 0

(***************************************************************************)
(* C13 as amended: Display(), start() and stop() are invoked only if       *)
(* headless is true; in a run that is not headless none of them is ever    *)
(* invoked and no Display object exists.  In a headless run that reaches   *)
(* setup_driver the Display object is constructed exactly once, and        *)
(* start() is invoked exactly once unless the constructor raised, in       *)
(* which case start() is never invoked.                                    *)
(***************************************************************************)
C13_DisplayOnlyHeadless ==
    /\ \A i \in 1..Len(calls) :
          calls[i].op \in {"Display", "Display.start", "Display.stop"} => self.headless
    /\ ~self.headless => self.display = None /\ xvfb = "absent"
    /\ (Invoked("setup_driver") /\ self.headless) =>
          /\ CountCalls("Display") = 1
          /\ calls[1].op = "Display"
          /\ CountCalls("Display.start") =
                (IF answers["setup_driver"].failAt = 1 THEN 0 ELSE 1)

C13_Witness ==
    /\ pc = "exited"
    /\ self.headless
    /\ answers["setup_driver"].failAt = 1
    /\ CountCalls("Display") = 1
    /\ CountCalls("Display.start") = 0

(***************************************************************************)
(* Stages and their diagnostics                                            *)
(***************************************************************************)
StageOf(p) ==
    CASE p = "setup_driver" -> "acquisition"
      [] p = "login" -> "authentication"
      [] p = "navigate_to_url_filter" -> "navigation"
      [] p = "set_url_filter_state" -> "mutation"

Stages == {StageOf(p) : p \in PhaseSet}

\* The ERROR lines by the stage whose failure prints them.
ErrorTexts(stage) ==
    CASE stage = "acquisition" -> {"ERROR: Configuration failed:"}
      [] stage = "authentication" ->
            {"ERROR: Timeout while trying to log in",
             "ERROR: Could not find login element:",
             "ERROR: Unexpected error during login:"}
      [] stage = "navigation" -> {"ERROR: Failed to navigate to URL filter page:"}
      [] stage = "mutation" ->
            {"ERROR: Timeout while trying to activating URL filtering",
             "ERROR: Timeout while trying to deactivating URL filtering",
             "ERROR: Could not find URL filter element:",
             "ERROR: Unexpected error while configuring URL filter:"}

\* The positions of the ERROR lines printed for a failed stage.
ErrorLines ==
    {i \in 1..Len(printed) : \E st \in Stages : printed[i].text \in ErrorTexts(st)}

\* The stage a result of configure() names: a boolean names none.
StageNamedBy(result) == IF result \in Stages THEN result ELSE "none"

(***************************************************************************)
(* C14 as claimed: when the workflow fails, the result of configure()      *)
(* (the value of the return statement that ran) identifies the stage that  *)
(* failed, and that stage is the first phase with a negative outcome.      *)
(***************************************************************************)
C14_Original ==
    \A p \in PhaseSet :
        (Failed(p) /\ ret # None) => StageNamedBy(ret) = StageOf(p)

(***************************************************************************)
(* C14 as amended: when a phase fails, configure() returns only False, a   *)
(* boolean that names no stage; the stage is identified by the printed     *)
(* output: exactly one ERROR diagnostic is printed, its text is one only   *)
(* that stage prints, and the stage is the first and only phase with a     *)
(* negative outcome, the last one invoked.  A run in which no phase        *)
(* failed prints no such line.  When login cannot find the username field  *)
(* the line is "ERROR: Could not find login element: ..." and navigation   *)
(* and mutation are never invoked.                                         *)
(***************************************************************************)
C14_DiagnosticNamesStage ==
    /\ \A p \in PhaseSet :
          Failed(p) =>
              /\ ret # "True"
              /\ StageNamedBy(ret) = "none"
              /\ invoked[Len(invoked)] = p
              /\ \A q \in PhaseSet \ {p} : ~Failed(q)
              /\ Cardinality(ErrorLines) = 1
              /\ \A i \in ErrorLines : printed[i].text \in ErrorTexts(StageOf(p))
    /\ (\A p \in PhaseSet : ~Failed(p)) => ErrorLines = {}
    /\ (answers["login"].failAt = 3 /\ answers["login"].cls = "NoSuchElementException") =>
          /\ Printed(Line("ERROR: Could not find login element:",
                          "NoSuchElementException: find_element login_username"))
          /\ ~Invoked("navigate_to_url_filter")
          /\ ~Invoked("set_url_filter_state")

C14_Witness ==
    /\ pc = "exited"
    /\ answers["login"].failAt = 3
    /\ answers["login"].cls = "NoSuchElementException"
    /\ Returns("False")
    /\ exitCode = {1}
    /\ \A i \in ErrorLines : printed[i].text = "ERROR: Could not find login element:"

(***************************************************************************)
(* C15: commit ordering in set_url_filter_state.  The Apply control is     *)
(* located and clicked only after the click on the selected radio control  *)
(* returned without an exception, and it is clicked at most once per run;  *)
(* when the radio click raises, Apply is neither located nor clicked and   *)
(* the step returns False.                                                 *)
(***************************************************************************)
IsRadioClick(c) == c.op = "click" /\ c.target = "url_enable_x"

C15_CommitOrdering ==
    LET a == answers["set_url_filter_state"]
        applyCalls == {i \in 1..Len(calls) : calls[i].target = apply_xpath}
        applyClicks == {i \in applyCalls : calls[i].op = "click"}
    IN  /\ Cardinality(applyClicks) <= 1
        /\ Cardinality(applyCalls) <= 2
        /\ \A i \in applyCalls :
              /\ \E j \in 1..(i - 1) : IsRadioClick(calls[j])
              /\ \A j \in i..Len(calls) : ~IsRadioClick(calls[j])
              /\ a.asked /\ a.failAt # 2
        /\ \A i \in applyClicks :
              calls[i - 1] = Call("find_element", "xpath", apply_xpath, "", -1)
        /\ (a.asked /\ a.failAt = 2) =>
              /\ \E j \in 1..Len(calls) : IsRadioClick(calls[j])
              /\ applyCalls = {}
              /\ outcome["set_url_filter_state"] = "False"

C15_Witness ==
    /\ pc = "exited"
    /\ answers["set_url_filter_state"].failAt = 2
    /\ RadioClicks = <<0>>
    /\ outcome["set_url_filter_state"] = "False"
    /\ \A i \in 1..Len(calls) : calls[i].target # apply_xpath

(***************************************************************************)
(* C16: login ordering.  Within login the actions occur in the fixed       *)
(* order navigate, fill username, fill password, click submit, and the     *)
(* first call that raises stops the rest; when the login_username field is *)
(* not found, the password is sent to no element and the submit control is *)
(* never clicked.                                                          *)
(***************************************************************************)
C16_Order ==
    <<<<"get", "login page">>,
      <<"current_url", "">>,
      <<"find_element", "login_username">>,
      <<"clear", "login_username">>,
      <<"send_keys", "login_username">>,
      <<"find_element", "login_passwd">>,
      <<"clear", "login_passwd">>,
      <<"send_keys", "login_passwd">>,
      <<"find_element", "button">>,
      <<"click", "button">>>>

\* The calls login made, as (operation, element) pairs in the order made.
C16_LoginCalls ==
    LET IsLoginCall(c) ==
            \/ c.op = "current_url"
            \/ c.target \in {"login_username", "login_passwd", "button"}
            \/ c.op = "get" /\ c.target # filter_url
        made == SelectSeq(calls, IsLoginCall)
    IN  [i \in 1..Len(made) |->
            <<made[i].op, IF made[i].op = "get" THEN "login page" ELSE made[i].target>>]

C16_LoginOrdering ==
    LET a == answers["login"] IN
    /\ Len(C16_LoginCalls) <= Len(C16_Order)
    /\ C16_LoginCalls = SubSeq(C16_Order, 1, Len(C16_LoginCalls))
    /\ a.asked => Len(C16_LoginCalls) = (IF a.failAt = 0 THEN Len(C16_Order) ELSE a.failAt)
    /\ ~a.asked => C16_LoginCalls = <<>>
    /\ (a.asked /\ a.failAt = 3) =>
          /\ \A i \in 1..Len(calls) :
                /\ calls[i].arg # self.password
                /\ calls[i].target # "login_passwd"
                /\ ~(calls[i].op = "click" /\ calls[i].target = "button")
          /\ outcome["login"] = "False"

C16_Witness ==
    /\ pc = "exited"
    /\ answers["login"].failAt = 3
    /\ answers["login"].cls = "NoSuchElementException"
    /\ C16_LoginCalls = SubSeq(C16_Order, 1, 3)
    /\ CountCalls("send_keys") = 0

(***************************************************************************)
(* C17: configure() never lets an exception escape to main(): on every     *)
(* path, an exception raised by driver.quit() or display.stop() in the     *)
(* finally block included, configure() returns a boolean and main()        *)
(* reaches sys.exit with the exit status of that boolean.                  *)
(***************************************************************************)
C17_NoEscape ==
    LeftConfigure =>
        /\ raised = None
        /\ ret \in {"True", "False"}
        /\ pc = "exited" => exitCode = {IF ret = "True" THEN 0 ELSE 1}

(***************************************************************************)
(* C18 as claimed: teardown touches only what was brought up: quit() is    *)
(* invoked only if the browser was created, and display.stop() only on a   *)
(* virtual display whose start() returned, never on one whose start()      *)
(* raised.                                                                 *)
(***************************************************************************)
C18_Original ==
    /\ CountCalls("quit") >= 1 => self.driver # None
    /\ CountCalls("Display.stop") >= 1 => xvfb \notin {"absent", "start failed"}

(***************************************************************************)
(* C18 as amended: driver.quit() is invoked only if the browser was        *)
(* created (webdriver.Firefox returned); display.stop() is invoked only on *)
(* a Display object that was constructed and assigned to self.display, so  *)
(* never in a run that is not headless and never when Display() raised.    *)
(* start() has been called on that object, but it need not have returned:  *)
(* stop() is also invoked on a display whose start() raised.               *)
(***************************************************************************)
C18_TeardownTouches ==
    LET su == answers["setup_driver"] IN
    /\ CountCalls("quit") >= 1 =>
          /\ self.driver # None
          /\ browser \in {"quit", "quit failed"}
          /\ CountCalls("webdriver.Firefox") = 1
          /\ su.failAt = 0
    /\ CountCalls("Display.stop") >= 1 =>
          /\ self.display # None
          /\ self.headless
          /\ CountCalls("Display") = 1
          /\ CountCalls("Display.start") = 1
          /\ su.failAt # 1
          /\ xvfb \in {"start failed", "stopped", "stop failed"}
          /\ xvfb = "start failed" <=> su.failAt = 2

C18_Witness ==
    /\ pc = "exited"
    /\ xvfb = "start failed"
    /\ answers["setup_driver"].failAt = 2
    /\ CountCalls("Display.stop") = 1
    /\ CountCalls("quit") = 0

(***************************************************************************)
(* C19: the transport scheme preference has no effect on the workflow.  A  *)
(* run that differs only in use_https and gets the same answers from the   *)
(* collaborators makes the same calls in the same order; the login URL is  *)
(* always http://<router_ip>/Main_Login.asp and the filter-page URL is a   *)
(* constant that depends on neither router_ip nor use_https.               *)
(***************************************************************************)
C19_OtherScheme(s) ==
    [s EXCEPT !.use_https = ~s.use_https,
              !.protocol = IF s.use_https THEN "http" ELSE "https"]

====
